---- MODULE Spec2Model ----
(***************************************************************************)
(* The dns command line client of trust-dns (util/src/dns.rs): one run of   *)
(* main, from the command line arguments to the rendered response.         *)
(* Option<T> values are sequences of length at most one.                    *)
(***************************************************************************)
EXTENDS Integers, Sequences, FiniteSets, TLC

VARIABLES argv, opts, pc, config, stream, server_cert, calls, accepted,
          handshake_failed, client, driver, handle, steps, record_set,
          request, response, stdout

vars == <<argv, opts, pc, config, stream, server_cert, calls, accepted,
          handshake_failed, client, driver, handle, steps, record_set,
          request, response, stdout>>

(* ------------------------------ bounds --------------------------------- *)
MaxRdata == 2
MaxTtl == 1
MaxVerifyCalls == 3

(* --------------------------- Option<T> --------------------------------- *)
None == <<>>
Some(x) == <<x>>
unwrap(o) == o[1]

(* ------------------------- argument schema ----------------------------- *)
Protocol == {"udp", "tcp", "tls", "https", "quic"}
Command == {"Query", "Notify", "Create", "Append", "DeleteRecord"}
RecordTypes == {"A", "AAAA"}
RdataStrings == {"192.0.2.1", "::1", "bogus"}
NAME == "www.example.com"
ZONE == "example.com"
CLASS == "IN"
DNS_NAME == "dns.example.com"
ALPN_ARG == "dot"
WARNING == ";!!!THIS IS NOT VERIFYING THE SERVER TLS CERTIFICATE!!!"

RECURSIVE SeqsUpTo(_, _)
SeqsUpTo(S, n) ==
  IF n = 0 THEN {<<>>}
  ELSE LET shorter == SeqsUpTo(S, n - 1)
       IN shorter \cup {Append(s, x) : s \in {t \in shorter : Len(t) = n - 1}, x \in S}

(* The subcommands with their positional arguments; a field a subcommand   *)
(* does not declare holds a fixed placeholder.                              *)
QueryOpt == {[kind |-> "Query", ty |-> t, ttl |-> 0, rdata |-> <<>>, must_exist |-> FALSE] :
               t \in RecordTypes}
NotifyOpt == {[kind |-> "Notify", ty |-> t, ttl |-> 0, rdata |-> r, must_exist |-> FALSE] :
               t \in RecordTypes, r \in SeqsUpTo(RdataStrings, MaxRdata)}
CreateOpt == {[kind |-> "Create", ty |-> t, ttl |-> l, rdata |-> r, must_exist |-> FALSE] :
               t \in RecordTypes, l \in 0..MaxTtl, r \in SeqsUpTo(RdataStrings, MaxRdata)}
AppendOpt == {[kind |-> "Append", ty |-> t, ttl |-> l, rdata |-> r, must_exist |-> m] :
               t \in RecordTypes, l \in 0..MaxTtl, r \in SeqsUpTo(RdataStrings, MaxRdata),
               m \in BOOLEAN}
DeleteRecordOpt == {[kind |-> "DeleteRecord", ty |-> t, ttl |-> 0, rdata |-> r, must_exist |-> FALSE] :
               t \in RecordTypes, r \in SeqsUpTo(RdataStrings, MaxRdata)}

(* The command line: what the user supplied, before clap's defaults.        *)
Opts == [protocol : Protocol,
         tls_dns_name : {None, Some(DNS_NAME)},
         alpn : {None, Some(ALPN_ARG)},
         do_not_verify_nameserver_cert : BOOLEAN,
         zone : {None, Some(ZONE)},
         class : {CLASS},
         command : QueryOpt \cup NotifyOpt \cup CreateOpt \cup AppendOpt \cup DeleteRecordOpt]

UpdateCommands == {"Create", "Append", "DeleteRecord"}

(* Variant: "quic" left out of the required_if_eq_any list.                 *)
tls_dns_name_required_quic_missing(a) == a.protocol \in {"tls", "https"}

(* clap: required_if_eq_any on tls_dns_name                                 *)
tls_dns_name_required(a) == a.protocol \in {"tls", "https", "quic"}

(* clap: required = true on the rdata of Create, Append and DeleteRecord    *)
rdata_required(c) == c.kind \in {"Create", "Append", "DeleteRecord"}

(* clap: default_value_ifs on alpn                                          *)
alpn_default(protocol) ==
  CASE protocol = "tls" -> None
    [] protocol = "https" -> Some("h2")
    [] protocol = "quic" -> Some("doq")
    [] OTHER -> None

(* Opts::parse: the usage error of a missing required argument, or the     *)
(* options with the defaults applied.                                       *)
parse(a) ==
  IF \/ tls_dns_name_required(a) /\ a.tls_dns_name = None
     \/ rdata_required(a.command) /\ a.command.rdata = <<>>
  THEN None
  ELSE Some([a EXCEPT !.alpn = IF a.alpn # None THEN a.alpn ELSE alpn_default(a.protocol)])

(* --------------------------- TLS configuration ------------------------- *)
tls_config == [alpn_protocols |-> <<>>, verifier |-> "webpki"]

client_config_tls13_webpki_roots == [alpn_protocols |-> <<>>, verifier |-> "webpki"]

do_not_verify_nameserver_cert(tls_cfg) == [tls_cfg EXCEPT !.verifier = "dangerous"]

(* ------------------------ the arms of main's match --------------------- *)
(* Each arm yields the panic it raises, if any, or the handshake           *)
(* configuration and the transport it constructs.                           *)
Panic(msg) == [panic |-> Some(msg), config |-> None, stream |-> None]
Built(cfg, s) == [panic |-> None, config |-> cfg, stream |-> Some(s)]

ArmUdp(o) == Built(None, "udp")

ArmTcp(o) == Built(None, "tcp")

ArmTls(o) ==
  IF o.tls_dns_name = None THEN Panic("tls_dns_name is required tls connections")
  ELSE LET c0 == tls_config
           c1 == IF o.do_not_verify_nameserver_cert
                 THEN do_not_verify_nameserver_cert(c0) ELSE c0
       IN Built(Some(c1), "tls")

(* Variant: the arm without config.alpn_protocols.push(alpn).               *)
ArmHttps_no_push(o) ==
  IF o.alpn = None THEN Panic("ALPN is required for HTTPS")
  ELSE IF o.tls_dns_name = None THEN Panic("tls_dns_name is required https connections")
  ELSE LET c0 == tls_config
           c1 == IF o.do_not_verify_nameserver_cert
                 THEN do_not_verify_nameserver_cert(c0) ELSE c0
       IN Built(Some(c1), "https")

ArmHttps(o) ==
  IF o.alpn = None THEN Panic("ALPN is required for HTTPS")
  ELSE IF o.tls_dns_name = None THEN Panic("tls_dns_name is required https connections")
  ELSE LET c0 == tls_config
           c1 == IF o.do_not_verify_nameserver_cert
                 THEN do_not_verify_nameserver_cert(c0) ELSE c0
           c2 == [c1 EXCEPT !.alpn_protocols = Append(@, unwrap(o.alpn))]
       IN Built(Some(c2), "https")

ArmQuic(o) ==
  IF o.alpn = None THEN Panic("ALPN is required for HTTPS")
  ELSE IF o.tls_dns_name = None THEN Panic("tls_dns_name is required quic connections")
  ELSE LET c0 == client_config_tls13_webpki_roots
           c1 == IF o.do_not_verify_nameserver_cert
                 THEN do_not_verify_nameserver_cert(c0) ELSE c0
           c2 == [c1 EXCEPT !.alpn_protocols = Append(@, unwrap(o.alpn))]
       IN Built(Some(c2), "quic")

match_protocol(o) ==
  CASE o.protocol = "udp" -> ArmUdp(o)
    [] o.protocol = "tcp" -> ArmTcp(o)
    [] o.protocol = "tls" -> ArmTls(o)
    [] o.protocol = "https" -> ArmHttps(o)
    [] o.protocol = "quic" -> ArmQuic(o)

(* ------------------------- certificate verification -------------------- *)
ServerCerts == {"trusted", "self_signed", "mismatched_name"}
VerifySites == {"verify_server_cert", "verify_tls12_signature", "verify_tls13_signature"}

(* DangerousVerifier: every call prints the warning and succeeds.           *)
verify_server_cert(cert) == [ok |-> TRUE, lines |-> <<WARNING>>]

verify_tls12_signature(cert) == [ok |-> TRUE, lines |-> <<WARNING>>]

(* Variant: a call site that accepts without printing the warning.          *)
verify_tls13_signature_silent(cert) == [ok |-> TRUE, lines |-> <<>>]

verify_tls13_signature(cert) == [ok |-> TRUE, lines |-> <<WARNING>>]

DangerousVerifier(site, cert) ==
  CASE site = "verify_server_cert" -> verify_server_cert(cert)
    [] site = "verify_tls12_signature" -> verify_tls12_signature(cert)
    [] site = "verify_tls13_signature" -> verify_tls13_signature(cert)

(* The verifier of the root store: silent, succeeds on a trusted chain.     *)
WebPkiVerifier(site, cert) == [ok |-> cert = "trusted", lines |-> <<>>]

verify(cfg, site, cert) ==
  IF cfg.verifier = "dangerous" THEN DangerousVerifier(site, cert)
  ELSE WebPkiVerifier(site, cert)

(* ------------------------------ record data ---------------------------- *)
(* RData::try_from_str: the parsed value, or None when the string is not a *)
(* textual form of the record type.                                         *)
try_from_str(record_type, r) ==
  CASE record_type = "A" /\ r = "192.0.2.1" -> Some([A |-> <<192, 0, 2, 1>>])
    [] record_type = "AAAA" /\ r = "::1" -> Some([AAAA |-> <<0, 0, 0, 0, 0, 0, 0, 1>>])
    [] OTHER -> None

(* Variant: the loop skipping the strings that fail to parse.               *)
RECURSIVE add_all_lenient(_, _, _)
add_all_lenient(record_set_, record_type, rdata) ==
  IF rdata = <<>> THEN Some(record_set_)
  ELSE LET data == try_from_str(record_type, Head(rdata))
       IN IF data = None THEN add_all_lenient(record_set_, record_type, Tail(rdata))
          ELSE add_all_lenient([record_set_ EXCEPT !.rdatas = Append(@, unwrap(data))],
                               record_type, Tail(rdata))

(* The loop of record_set_from over the lazily parsing iterator: the first *)
(* string that fails to parse panics, whatever was added before it.         *)
RECURSIVE add_all(_, _, _)
add_all(record_set_, record_type, rdata) ==
  IF rdata = <<>> THEN Some(record_set_)
  ELSE LET data == try_from_str(record_type, Head(rdata))
       IN IF data = None THEN None
          ELSE add_all([record_set_ EXCEPT !.rdatas = Append(@, unwrap(data))],
                       record_type, Tail(rdata))

(* record_set_from: Some(record set), or None for the panic                 *)
(* "failed to parse rdata".                                                 *)
record_set_from(name, class, record_type, ttl, rdata) ==
  add_all([name |-> name, record_type |-> record_type, ttl |-> ttl,
           dns_class |-> class, rdatas |-> <<>>],
          record_type, rdata)

(* ------------------------------ handle_request ------------------------- *)
(* Variant: the Append arm with the "let ttl = 0" of the DeleteRecord arm.  *)
arm_ttl_append_zero(c) ==
  CASE c.kind = "Notify" -> 0
    [] c.kind = "Create" -> c.ttl
    [] c.kind = "Append" -> 0
    [] c.kind = "DeleteRecord" -> 0
    [] OTHER -> 0

(* The ttl each arm of handle_request passes to record_set_from.            *)
arm_ttl(c) ==
  CASE c.kind = "Notify" -> 0
    [] c.kind = "Create" -> c.ttl
    [] c.kind = "Append" -> c.ttl
    [] c.kind = "DeleteRecord" -> 0
    [] OTHER -> 0

(* Variant: the zone taken without the check.                               *)
zone_expect_unchecked(zone) == TRUE

(* zone.expect("zone is required for dynamic update operations")            *)
zone_expect(zone) == zone # None

(* Whether the arm calls record_set_from at all.                            *)
builds_record_set(c) ==
  \/ c.kind \in {"Create", "Append", "DeleteRecord"}
  \/ c.kind = "Notify" /\ c.rdata # <<>>

(* The client call of each arm.                                             *)
client_call(o, rs) ==
  LET c == o.command IN
  CASE c.kind = "Query" ->
         [call |-> "query", name |-> NAME, class |-> o.class, ty |-> c.ty,
          rdata |-> None, zone |-> None, must_exist |-> FALSE]
    [] c.kind = "Notify" ->
         [call |-> "notify", name |-> NAME, class |-> o.class, ty |-> c.ty,
          rdata |-> rs, zone |-> None, must_exist |-> FALSE]
    [] c.kind = "Create" ->
         [call |-> "create", name |-> NAME, class |-> o.class, ty |-> c.ty,
          rdata |-> rs, zone |-> o.zone, must_exist |-> FALSE]
    [] c.kind = "Append" ->
         [call |-> "append", name |-> NAME, class |-> o.class, ty |-> c.ty,
          rdata |-> rs, zone |-> o.zone, must_exist |-> c.must_exist]
    [] c.kind = "DeleteRecord" ->
         [call |-> "delete_by_rdata", name |-> NAME, class |-> o.class, ty |-> c.ty,
          rdata |-> rs, zone |-> o.zone, must_exist |-> FALSE]

(* --------------------------------- state ------------------------------- *)
O == unwrap(opts)
total_calls == calls["verify_server_cert"] + calls["verify_tls12_signature"]
               + calls["verify_tls13_signature"]

Init ==
  /\ argv \in Opts
  /\ opts = None
  /\ pc = "start"
  /\ config = None
  /\ stream = None
  /\ server_cert = "none"
  /\ calls = [s \in VerifySites |-> 0]
  /\ accepted = 0
  /\ handshake_failed = FALSE
  /\ client = "none"
  /\ driver = "none"
  /\ handle = "none"
  /\ steps = <<>>
  /\ record_set = None
  /\ request = None
  /\ response = None
  /\ stdout = <<>>

(* --------------------------------- main -------------------------------- *)
(* let opts: Opts = Opts::parse();                                          *)
Parse ==
  /\ pc = "start"
  /\ opts' = parse(argv)
  /\ pc' = IF parse(argv) = None THEN "usage_error" ELSE "main"
  /\ UNCHANGED <<argv, config, stream, server_cert, calls, accepted, handshake_failed,
                 client, driver, handle, steps, record_set, request, response, stdout>>

(* match protocol { ... }: up to the construction of the stream and of the *)
(* future that initialises the client.                                      *)
MatchProtocol ==
  /\ pc = "main"
  /\ LET m == match_protocol(O) IN
       IF m.panic # None
       THEN /\ pc' = "panic_config"
            /\ UNCHANGED <<config, stream, server_cert, stdout>>
       ELSE /\ pc' = "connecting"
            /\ config' = m.config
            /\ stream' = m.stream
            /\ stdout' = Append(stdout, "; using")
            /\ \E cert \in (IF m.config # None THEN ServerCerts ELSE {"none"}) :
                 server_cert' = cert
  /\ UNCHANGED <<argv, opts, calls, accepted, handshake_failed, client, driver, handle,
                 steps, record_set, request, response>>

(* The handshake calls the configured verifier at one of its call sites.    *)
VerifyCall(site) ==
  /\ pc = "connecting"
  /\ config # None
  /\ ~handshake_failed
  /\ total_calls < MaxVerifyCalls
  /\ LET v == verify(unwrap(config), site, server_cert) IN
       /\ calls' = [calls EXCEPT ![site] = @ + 1]
       /\ stdout' = stdout \o v.lines
       /\ accepted' = IF v.ok THEN accepted + 1 ELSE accepted
       /\ handshake_failed' = ~v.ok
  /\ UNCHANGED <<argv, opts, pc, config, stream, server_cert, client, driver, handle,
                 steps, record_set, request, response>>

(* let (client, bg) = ... .await?  with Ok                                  *)
ConnectOk ==
  /\ pc = "connecting"
  /\ config # None => (calls["verify_server_cert"] >= 1 /\ ~handshake_failed)
  /\ client' = "ready"
  /\ pc' = "connected"
  /\ UNCHANGED <<argv, opts, config, stream, server_cert, calls, accepted,
                 handshake_failed, driver, handle, steps, record_set, request,
                 response, stdout>>

(* let (client, bg) = ... .await?  with Err: main returns the error         *)
ConnectFail ==
  /\ pc = "connecting"
  /\ pc' = "error_connect"
  /\ UNCHANGED <<argv, opts, config, stream, server_cert, calls, accepted,
                 handshake_failed, client, driver, handle, steps, record_set,
                 request, response, stdout>>

(* Variant: the driver future is never spawned.                             *)
Spawn_forgotten ==
  /\ pc = "connected"
  /\ pc' = "hr_entry"
  /\ UNCHANGED <<argv, opts, config, stream, server_cert, calls, accepted,
                 handshake_failed, client, driver, handle, steps, record_set,
                 request, response, stdout>>

(* let handle = tokio::spawn(bg); then handle_request is entered            *)
Spawn ==
  /\ pc = "connected"
  /\ driver' = "running"
  /\ handle' = "held"
  /\ pc' = "hr_entry"
  /\ UNCHANGED <<argv, opts, config, stream, server_cert, calls, accepted,
                 handshake_failed, client, steps, record_set, request, response, stdout>>

(* ---------------------------- handle_request --------------------------- *)
(* let zone = zone.expect(...) of the Create, Append and DeleteRecord arms  *)
HR_Validate ==
  /\ pc = "hr_entry"
  /\ O.command.kind \in UpdateCommands
  /\ steps' = Append(steps, "validate")
  /\ pc' = IF zone_expect(O.zone) THEN "hr_build" ELSE "panic_zone"
  /\ UNCHANGED <<argv, opts, config, stream, server_cert, calls, accepted,
                 handshake_failed, client, driver, handle, record_set, request,
                 response, stdout>>

(* let rdata = record_set_from(name.clone(), class, ty, ttl, rdata);        *)
HR_Build ==
  /\ pc \in {"hr_entry", "hr_build"}
  /\ builds_record_set(O.command)
  /\ \/ pc = "hr_build"
     \/ pc = "hr_entry" /\ O.command.kind \notin UpdateCommands
  /\ steps' = Append(steps, "build")
  /\ LET c == O.command
         rs == record_set_from(NAME, O.class, c.ty, arm_ttl(c), c.rdata)
     IN IF rs = None
        THEN pc' = "panic_rdata" /\ UNCHANGED record_set
        ELSE pc' = "hr_submit" /\ record_set' = rs
  /\ UNCHANGED <<argv, opts, config, stream, server_cert, calls, accepted,
                 handshake_failed, client, driver, handle, request, response, stdout>>

(* println!("; sending ...") and the client call, up to its await           *)
HR_Submit ==
  /\ pc \in {"hr_entry", "hr_submit"}
  /\ \/ pc = "hr_submit"
     \/ pc = "hr_entry" /\ O.command.kind \notin UpdateCommands
                        /\ ~builds_record_set(O.command)
  /\ steps' = Append(steps, "submit")
  /\ stdout' = Append(stdout, "; sending")
  /\ request' = Some(client_call(O, record_set))
  /\ pc' = "hr_await"
  /\ UNCHANGED <<argv, opts, config, stream, server_cert, calls, accepted,
                 handshake_failed, client, driver, handle, record_set, response>>

(* client.<call>(...).await? with Ok: the driver delivered the response     *)
HR_Response ==
  /\ pc = "hr_await"
  /\ driver = "running"
  /\ steps' = Append(steps, "response")
  /\ response' = Some("message")
  /\ pc' = "hr_responded"
  /\ UNCHANGED <<argv, opts, config, stream, server_cert, calls, accepted,
                 handshake_failed, client, driver, handle, record_set, request, stdout>>

(* Variant: a failed call is submitted again.                               *)
HR_Error_retry ==
  /\ pc = "hr_await"
  /\ pc' = "hr_submit"
  /\ UNCHANGED <<argv, opts, config, stream, server_cert, calls, accepted,
                 handshake_failed, client, driver, handle, steps, record_set,
                 request, response, stdout>>

(* client.<call>(...).await? with Err: propagated out of main, which drops *)
(* the join handle on the way                                               *)
HR_Error ==
  /\ pc = "hr_await"
  /\ pc' = "error_request"
  /\ handle' = "dropped"
  /\ UNCHANGED <<argv, opts, config, stream, server_cert, calls, accepted,
                 handshake_failed, client, driver, steps, record_set, request,
                 response, stdout>>

(* let response = response.into_inner(); and the two println!               *)
HR_Render ==
  /\ pc = "hr_responded"
  /\ steps' = Append(steps, "render")
  /\ stdout' = stdout \o <<"; received response", "response">>
  /\ pc' = "hr_rendered"
  /\ UNCHANGED <<argv, opts, config, stream, server_cert, calls, accepted,
                 handshake_failed, client, driver, handle, record_set, request, response>>

(* drop(handle); Ok(()): the handle is dropped, which detaches the driver; *)
(* the runtime of #[tokio::main] is then torn down with the task in it      *)
MainReturn ==
  /\ pc = "hr_rendered"
  /\ handle' = "dropped"
  /\ driver' = "shutdown"
  /\ pc' = "done"
  /\ UNCHANGED <<argv, opts, config, stream, server_cert, calls, accepted,
                 handshake_failed, client, steps, record_set, request, response, stdout>>

Next ==
  \/ Parse
  \/ MatchProtocol
  \/ \E site \in VerifySites : VerifyCall(site)
  \/ ConnectOk
  \/ ConnectFail
  \/ Spawn
  \/ HR_Validate
  \/ HR_Build
  \/ HR_Submit
  \/ HR_Response
  \/ HR_Error
  \/ HR_Render
  \/ MainReturn

Spec == Init /\ [][Next]_vars

TypeOK ==
  /\ argv \in Opts
  /\ pc \in {"start", "usage_error", "main", "panic_config", "connecting", "error_connect",
             "connected", "hr_entry", "hr_build", "hr_submit", "hr_await", "hr_responded",
             "hr_rendered", "panic_zone", "panic_rdata", "error_request", "done"}
  /\ driver \in {"none", "running", "shutdown"}
  /\ handle \in {"none", "held", "dropped"}
  /\ client \in {"none", "ready"}
  /\ Len(steps) <= 5

(* ------------------------------- properties ---------------------------- *)
parsed == opts # None
cmd == argv.command
StepRank(st) ==
  CASE st = "validate" -> 1
    [] st = "build" -> 2
    [] st = "submit" -> 3
    [] st = "response" -> 4
    [] st = "render" -> 5
did(st) == \E i \in DOMAIN steps : steps[i] = st
warnings == Cardinality({i \in DOMAIN stdout : stdout[i] = WARNING})
has_bad_rdata == \E i \in DOMAIN cmd.rdata : try_from_str(cmd.ty, cmd.rdata[i]) = None

(* C1: with protocol tls, https or quic and no TLS server name on the      *)
(* command line, whatever the command, zone, ALPN and insecure flag, the   *)
(* run stops with the missing-argument error of the argument validation:   *)
(* no handshake configuration or transport is constructed, no client is    *)
(* initialised, no driver is spawned and no request is submitted.           *)
C1_NoServerNameNoNetwork ==
  (argv.protocol \in {"tls", "https", "quic"} /\ argv.tls_dns_name = None)
    => /\ pc \in {"start", "usage_error"}
       /\ config = None /\ stream = None /\ client = "none"
       /\ driver = "none" /\ request = None /\ total_calls = 0

C1_Witness ==
  /\ argv.protocol \in {"tls", "https", "quic"} /\ argv.tls_dns_name = None
  /\ pc = "usage_error"

(* C2: for Create, Append and DeleteRecord without a zone, handle_request  *)
(* ends in the zone panic: record_set_from is never invoked, no record set *)
(* exists and no request is submitted.                                      *)
C2_NoZoneNoRecordSet ==
  (cmd.kind \in {"Create", "Append", "DeleteRecord"} /\ argv.zone = None)
    => /\ ~did("build") /\ ~did("submit")
       /\ record_set = None /\ request = None
       /\ steps # <<>> => pc = "panic_zone"

C2_Witness ==
  /\ cmd.kind \in {"Create", "Append", "DeleteRecord"} /\ argv.zone = None
  /\ pc = "panic_zone"

(* C3: when a command carries record data and one of the strings, at any   *)
(* position, is not a textual form of the declared record type, the run    *)
(* aborts in record_set_from once it is invoked: no client call is made    *)
(* and no record set, in particular none made of the strings before the    *)
(* bad one, leaves record_set_from.                                         *)
C3_BadRdataAborts ==
  (cmd.kind \in {"Notify", "Create", "Append", "DeleteRecord"} /\ has_bad_rdata)
    => /\ request = None /\ ~did("submit")
       /\ record_set = None
       /\ did("build") => pc = "panic_rdata"

C3_Witness ==
  /\ pc = "panic_rdata"
  /\ Len(cmd.rdata) >= 2
  /\ try_from_str(cmd.ty, cmd.rdata[1]) # None
  /\ try_from_str(cmd.ty, cmd.rdata[2]) = None

(* C4: with the insecure flag and protocol tls, https or quic, every       *)
(* verification call at any of the three call sites succeeds and prints    *)
(* the warning once: the warning lines printed equal the calls made, and   *)
(* every call was accepted.                                                 *)
C4_WarningPerCall ==
  (argv.do_not_verify_nameserver_cert /\ argv.protocol \in {"tls", "https", "quic"})
    => /\ warnings = total_calls
       /\ accepted = total_calls
       /\ ~handshake_failed

C4_Witness ==
  /\ argv.do_not_verify_nameserver_cert
  /\ server_cert \in {"self_signed", "mismatched_name"}
  /\ calls["verify_server_cert"] >= 1
  /\ calls["verify_tls12_signature"] + calls["verify_tls13_signature"] >= 1
  /\ client = "ready"

(* C5: for https and quic the handshake configuration handed to the        *)
(* transport holds exactly one ALPN identifier, the one given on the       *)
(* command line or else h2 for https and doq for quic; with no ALPN        *)
(* resolved the run panics before a transport is constructed.               *)
C5_AlpnResolved ==
  (argv.protocol \in {"https", "quic"} /\ parsed /\ pc # "main")
    => /\ stream # None =>
            /\ config # None
            /\ unwrap(config).alpn_protocols =
                 << IF argv.alpn # None THEN unwrap(argv.alpn)
                    ELSE IF argv.protocol = "https" THEN "h2" ELSE "doq" >>
       /\ O.alpn = None => (pc = "panic_config" /\ stream = None)
       /\ pc # "panic_config" => stream # None

C5_Witness ==
  /\ argv.protocol = "https" /\ argv.alpn = None
  /\ pc = "connecting"
  /\ unwrap(config).alpn_protocols = <<"h2">>

(* C6: a run that ends with the missing-zone panic has constructed no      *)
(* transport, initialised no client and spawned no driver.                  *)
C6_MissingZoneBeforeNetwork ==
  pc = "panic_zone" => (stream = None /\ client = "none" /\ driver = "none")

(* C7: the steps of handle_request happen in the order validate, build,    *)
(* submit, response, render, each at most once and none after a later      *)
(* one; a record set is built only after the zone check, a request is      *)
(* submitted only after the record set it carries is built, and a response *)
(* is rendered only when the one submission returned one.                   *)
C7_LinearDispatch ==
  /\ \A i, j \in DOMAIN steps : i < j => StepRank(steps[i]) < StepRank(steps[j])
  /\ (did("build") /\ cmd.kind \in {"Create", "Append", "DeleteRecord"}) => did("validate")
  /\ (did("submit") /\ cmd.kind \in {"Create", "Append", "DeleteRecord"}) => did("build")
  /\ (did("submit") /\ cmd.kind = "Notify" /\ cmd.rdata # <<>>) => did("build")
  /\ did("response") => did("submit")
  /\ did("render") => (did("response") /\ response # None)
  /\ did("submit") <=> request # None

C7_Witness ==
  steps = <<"validate", "build", "submit", "response", "render">>

(* C8: the driver is spawned only once the client is initialised; while a  *)
(* request is in flight the driver runs and its handle is held; a failed   *)
(* initialisation ends the run with no driver and no request.               *)
C8_DriverBeforeRequest ==
  /\ driver # "none" => client = "ready"
  /\ request # None => driver # "none"
  /\ pc = "hr_await" => (driver = "running" /\ handle = "held")
  /\ pc = "error_connect" => (client = "none" /\ driver = "none" /\ request = None)

C8_Witness ==
  /\ pc = "hr_await"
  /\ argv.protocol \in {"tls", "https", "quic"}
  /\ driver = "running"

(* C9: for tls the handshake configuration has no ALPN identifier when     *)
(* none is given on the command line, and holds the given one otherwise.    *)
C9_TlsAlpn ==
  (argv.protocol = "tls" /\ config # None)
    => /\ argv.alpn = None => unwrap(config).alpn_protocols = <<>>
       /\ argv.alpn # None =>
            \E i \in DOMAIN unwrap(config).alpn_protocols :
               unwrap(config).alpn_protocols[i] = unwrap(argv.alpn)

(* C10: the record set handed to the client has ttl 0 for Notify and       *)
(* DeleteRecord and the ttl of the command line for Create and Append, and *)
(* the request carries the record set as record_set_from built it.          *)
C10_TtlByOperation ==
  LET expected == IF cmd.kind \in {"Notify", "DeleteRecord"} THEN 0 ELSE cmd.ttl IN
  /\ record_set # None => unwrap(record_set).ttl = expected
  /\ request # None =>
       /\ unwrap(request).rdata = record_set
       /\ unwrap(request).rdata # None => unwrap(unwrap(request).rdata).ttl = expected

C10_Witness ==
  /\ cmd.kind = "Append" /\ cmd.ttl >= 1
  /\ request # None
  /\ unwrap(unwrap(request).rdata).ttl = cmd.ttl

====
